---- MODULE Spec2Model ----
(***************************************************************************)
(* A model of django_typer/__init__.py: the adapter that wraps typer       *)
(* commands and groups (DjangoAdapterMixin), the Context class, the        *)
(* metaclass that builds one Typer application per command class, the      *)
(* parser facade (TyperParser) and TyperCommand itself.                    *)
(*                                                                         *)
(* Python values are written as strings ("None", "False", "1", ...) so     *)
(* that mappings with values of different Python types stay comparable.    *)
(***************************************************************************)
EXTENDS Integers, Sequences, FiniteSets, TLC

VARIABLES
    wrapper,      \* the TyperCommandWrapper / TyperGroupWrapper last constructed
    invocation,   \* the call of its call target in progress: supplied and received keywords
    ctx_stack,    \* click's stack of active contexts, innermost last
    calls,        \* the callbacks executed so far: which dispatch, depth, instance received
    parse_call,   \* parse_args in progress: its args and what make_context produced
    parse_result, \* what parse_args returned or raised
    classes,      \* the command classes created so far, by name
    use,          \* the last use of a command class and how it ended
    round_trip,   \* one input given to a command by each invocation route, with the results
    instances,    \* the command instances constructed so far, in order of construction
    op,           \* the last operation on a command or parser and how it ended
    sys_stdout,   \* the stream sys.stdout is bound to
    written,      \* what has been written, to which stream
    help_call,    \* print_help in progress
    suppressed_base_arguments,  \* of the class the wrapper was constructed for
    bare_call,    \* a call of the wrapper's call target while no context is active
    help_chain,   \* a chain of command classes, each derived from the one before
    tree_app,     \* the click command get_typer_command builds for the class instantiated
    heap,         \* the CommandNode and Context objects that exist, by identity
    trees,        \* the instances of that class constructed so far, with their command_tree
    tree_op       \* the last parse_args or get_subcommand on one of these instances

adapterVars == <<wrapper, invocation, suppressed_base_arguments, bare_call>>

dispatchVars == <<ctx_stack, calls>>

parseVars == <<parse_call, parse_result>>

classVars == <<classes, use>>

routeVars == <<round_trip>>

helpVars == <<help_chain>>

treeVars == <<tree_app, heap, trees, tree_op>>

commandVars == <<instances, op, sys_stdout, written, help_call>>

vars == <<wrapper, invocation, ctx_stack, calls, parse_call, parse_result, classes, use,
          round_trip, instances, op, sys_stdout, written, help_call,
          suppressed_base_arguments, bare_call, helpVars, treeVars>>

None == "None"

\* An optional value: <<>> when absent, <<x>> when present
Nothing == <<>>
Some(x) == <<x>>

(***************************************************************************)
(* Generic helpers                                                         *)
(***************************************************************************)
Range(s) == {s[i] : i \in DOMAIN s}

SeqsUpTo(S, n) == UNION {[1..k -> S] : k \in 0..n}

DistinctSeqs(S, n) == {s \in SeqsUpTo(S, n) : \A i, j \in DOMAIN s : i # j => s[i] # s[j]}

\* Python's seq[1:]
Rest(s) == IF Len(s) = 0 THEN <<>> ELSE Tail(s)

\* Python's dict.update / {**a, **b}: b's entries win
Update(a, b) == [k \in DOMAIN a \cup DOMAIN b |-> IF k \in DOMAIN b THEN b[k] ELSE a[k]]

Restrict(f, K) == [k \in DOMAIN f \cap K |-> f[k]]

EmptyMap == [k \in {} |-> None]

\* what an operation gives back: a value, or an exception with its message
Returned(v) == [kind |-> "return", value |-> v, exc |-> None, msg |-> None]

Raised(exc, msg) == [kind |-> "raise", value |-> None, exc |-> exc, msg |-> msg]

(***************************************************************************)
(* Bounds                                                                  *)
(***************************************************************************)
MaxParams == 2      \* parameters a method declares besides its instance parameter
MaxKwargs == 3      \* keywords supplied in one invocation of a call target
MaxDepth == 3       \* nesting depth of a dispatched subcommand path (the root is 1)
MaxStack == 4       \* contexts active at once, nested dispatches included
MaxContexts == 4    \* contexts one make_context builds, the root included
MaxPath == 3        \* segments of a subcommand path
MaxInstances == 2   \* command instances constructed

(***************************************************************************)
(* 4.1 Common option set: _common_options, COMMON_PARAMS                   *)
(***************************************************************************)
_common_options ==
    [version     |-> "False",
     verbosity   |-> "1",
     settings    |-> "",
     pythonpath  |-> "None",
     traceback   |-> "False",
     no_color    |-> "False",
     force_color |-> "False",
     skip_checks |-> "False"]

COMMON_PARAM_NAMES ==
    <<"version", "verbosity", "settings", "pythonpath",
      "traceback", "no_color", "force_color", "skip_checks">>

\* A click parameter: its name and whose declaration it is
Param(n, d) == [name |-> n, decl |-> d]

COMMON_PARAMS == [i \in DOMAIN COMMON_PARAM_NAMES |-> Param(COMMON_PARAM_NAMES[i], "common")]

(***************************************************************************)
(* Functions handed to the adapter.  typer derives one click parameter per *)
(* parameter of the function, in declaration order, the instance parameter *)
(* of a method included (it is params[0]).                                 *)
(***************************************************************************)
OwnNames == {"throw", "verbosity", "traceback"}   \* as in dj_params4.Command.handle

Functions ==
    {[sig |-> <<"self">> \o s, is_method |-> TRUE] : s \in DistinctSeqs(OwnNames, MaxParams)}
    \cup
    {[sig |-> s, is_method |-> FALSE] : s \in DistinctSeqs(OwnNames, MaxParams)}

\* get_params_convertors_ctx_param_name_from_function(func)[0]
FunctionParams(f) == [i \in DOMAIN f.sig |-> Param(f.sig[i], "method")]

\* The parameters a method declares other than its instance parameter
Declared(f) == IF f.is_method THEN Range(Rest(f.sig)) ELSE Range(f.sig)

(***************************************************************************)
(* 4.2 Adapter layer: DjangoAdapterMixin                                   *)
(***************************************************************************)
ParamNames(ps) == [i \in DOMAIN ps |-> ps[i].name]

\* expected = [param.name for param in params[1:]]
expected(params) == ParamNames(Rest(params))

\* self_arg = params[0].name if params else "self"
self_arg(params) == IF Len(params) > 0 THEN params[1].name ELSE "self"

\* The params list given to super().__init__: the method's own after the first,
\* then the common ones whose name is not expected
WrappedParamsAllCommon(params) == Rest(params) \o COMMON_PARAMS

WrappedParams(params) ==
    Rest(params) \o
    SelectSeq(COMMON_PARAMS, LAMBDA p : p.name \notin Range(expected(params)))

\* DjangoAdapterMixin.__init__(callback=func, params=params)
DjangoAdapterMixin(f, params) ==
    [func     |-> f,
     _callback |-> f,
     expected |-> expected(params),
     self_arg |-> self_arg(params),
     params   |-> WrappedParams(params)]

\* call_with_self(**kwargs): the keywords the callback is called with
UnfilteredCall(w, kwargs, django_command) ==
    Update(kwargs, [k \in {w.self_arg} |-> django_command])

call_with_self(w, kwargs, django_command) ==
    Update(Restrict(kwargs, Range(w.expected)), [k \in {w.self_arg} |-> django_command])

(***************************************************************************)
(* 4.4 Metaclass: _TyperCommandMeta.__new__ and __init__                   *)
(***************************************************************************)
\* The command classes of the howto fixtures; each lives in its own module
UserClasses == {"upstream", "downstream"}

\* cls.__module__, as its dotted components
ModuleOf(c) ==
    IF c = "TyperCommand" THEN <<"django_typer">>
    ELSE <<"howto", "management", "commands", c>>

\* module.rsplit(".", maxsplit=1)[-1]
FirstComponent(module) == module[1]

LastComponent(module) == module[Len(module)]

\* What a class body may hold under each attribute name: an undecorated function,
\* or one decorated with command(name=...) or callback(); name None is no name
Plain == [kind |-> "plain", name |-> None]
Decorated(kind, name) == [kind |-> kind, name |-> name]

Attributes(m) ==
    CASE m = "handle" -> {Plain, Decorated("command", None), Decorated("command", "renamed")}
      [] m = "init"   -> {Decorated("callback", None)}
      [] m = "sub1"   -> {Decorated("command", None)}
      [] m = "sub_2"  -> {Plain, Decorated("command", None)}

\* attrs.values() order of a class body
AttrOrder == <<"handle", "init", "sub1", "sub_2">>

ClassBodies ==
    UNION {{b \in [M -> UNION {Attributes(m) : m \in M}] : \A m \in M : b[m] \in Attributes(m)}
           : M \in SUBSET Range(AttrOrder)}

\* Typer(...): an application with nothing registered
Typer(name) == [info_name |-> name, registered_commands |-> <<>>, registered_callback |-> Nothing]

\* typer_app.command(name, ...)(func): one more CommandInfo
typer_command(app, name, func) ==
    [app EXCEPT !.registered_commands = Append(@, [name |-> name, callback |-> func])]

\* typer_app.callback(...)(func)
typer_callback(app, func) == [app EXCEPT !.registered_callback = Some(func)]

\* The name typer gives a CommandInfo without one: get_command_name(func.__name__)
get_command_name(m) == IF m = "sub_2" THEN "sub-2" ELSE m

CommandName(info) == IF info.name # None THEN info.name ELSE get_command_name(info.callback[2])

\* a constructor that registers and stays attached to the function
constructor_left_attached(cls, c, m, extra_name) ==
    LET deco == cls.body[m]
        name == IF deco.name # None THEN deco.name ELSE extra_name
    IN  IF deco.name # None /\ extra_name # None
        THEN [cls EXCEPT !.status = "TypeError"]
        ELSE IF deco.kind = "callback"
             THEN [cls EXCEPT !.typer_app = typer_callback(@, <<c, m>>)]
             ELSE [cls EXCEPT !.typer_app = typer_command(@, name, <<c, m>>)]

\* func._typer_constructor_(cmd, **extra) of command(name)(func) and callback()(func):
\* name=name or extra.pop("name", None), ..., **extra.  A given name leaves "name"
\* in extra, which is then passed a second time: TypeError.
\* extra_name is None when the caller passes no name.
_typer_constructor_(cls, c, m, extra_name) ==
    LET deco == cls.body[m]
        name == IF deco.name # None THEN deco.name ELSE extra_name
    IN  IF deco.name # None /\ extra_name # None
        THEN [cls EXCEPT !.status = "TypeError"]
        ELSE IF deco.kind = "callback"
             THEN [cls EXCEPT !.typer_app = typer_callback(@, <<c, m>>),
                              !.ctor = @ \ {m}]
             ELSE [cls EXCEPT !.typer_app = typer_command(@, name, <<c, m>>),
                              !.ctor = @ \ {m}]

\* the identity of the object the call Typer(...) at line 287 creates while the
\* class statement of c is executed: a new object each time
NewTyperId(c) == <<"Typer", c>>

\* a metaclass that creates no application of its own, so that typer_app
\* resolves to the application object of the base class
MetaNewSharingBaseApp(c, base, body) ==
    [name      |-> c,
     base      |-> base,
     body      |-> body,
     status    |-> "ok",
     _handle   |-> IF "handle" \in DOMAIN body THEN Some(<<c, "handle">>) ELSE Nothing,
     ctor      |-> {m \in DOMAIN body : body[m].kind # "plain"},
     typer_app |-> IF base = "BaseCommand" THEN Typer(LastComponent(ModuleOf("TyperCommand")))
                   ELSE classes[base].typer_app,
     app_id    |-> IF base = "BaseCommand" THEN NewTyperId(c) ELSE classes[base].app_id]

\* _TyperCommandMeta.__new__: the class with its own typer_app, _handle and the
\* handle trampoline.  ctor is the set of attributes carrying _typer_constructor_.
MetaNew(c, base, body) ==
    [name      |-> c,
     base      |-> base,
     body      |-> body,
     status    |-> "ok",
     _handle   |-> IF "handle" \in DOMAIN body THEN Some(<<c, "handle">>) ELSE Nothing,
     ctor      |-> {m \in DOMAIN body : body[m].kind # "plain"},
     typer_app |-> Typer(LastComponent(ModuleOf("TyperCommand"))),
     app_id    |-> NewTyperId(c)]

\* cls.typer_app.info.name = cls.__module__.rsplit(".", maxsplit=1)[-1]
SetInfoName(cls) == [cls EXCEPT !.typer_app.info_name = LastComponent(ModuleOf(cls.name))]

\* if cls._handle: ... (lines 343-350)
RegisterHandle(cls) ==
    IF cls._handle = Nothing THEN cls
    ELSE IF "handle" \in cls.ctor
         THEN _typer_constructor_(cls, cls.name, "handle", cls.typer_app.info_name)
         ELSE [cls EXCEPT !.typer_app =
                   typer_command(@, cls.typer_app.info_name, cls._handle[1])]

\* for attr in attrs.values(): ... (lines 352-355); attrs no longer holds handle,
\* which __new__ popped
RECURSIVE RegisterAttrs(_, _)
RegisterAttrs(cls, names) ==
    IF names = <<>> \/ cls.status # "ok" THEN cls
    ELSE LET m == Head(names)
         IN  IF m # "handle" /\ m \in DOMAIN cls.body /\ m \in cls.ctor
             THEN RegisterAttrs(_typer_constructor_(cls, cls.name, m, None), Tail(names))
             ELSE RegisterAttrs(cls, Tail(names))

\* _TyperCommandMeta.__init__
MetaInit(cls) == RegisterAttrs(RegisterHandle(SetInfoName(cls)), AttrOrder)

\* class c(base): body
BuildClass(c, base, body) == MetaInit(MetaNew(c, base, body))

\* class TyperCommand(BaseCommand, metaclass=_TyperCommandMeta) with its own handle
TyperCommandClass == BuildClass("TyperCommand", "BaseCommand", [m \in {"handle"} |-> Plain])

(***************************************************************************)
(* TyperCommand: instances and the ways of using a command                 *)
(***************************************************************************)
\* typer.main.get_command(typer_app): a group, a single command, or, with nothing
\* registered, typer's own assertion failure
get_typer_command(app) ==
    IF app.registered_callback # Nothing \/ Len(app.registered_commands) > 1 THEN "group"
    ELSE IF Len(app.registered_commands) = 1 THEN "command"
    ELSE "AssertionError"

\* TyperCommand.__init__: the command tree is built from get_typer_command(typer_app)
Instantiate(cls) ==
    IF get_typer_command(cls.typer_app) = "AssertionError" THEN "AssertionError" ELSE "instance"

\* TyperCommand.__call__: hasattr(self, "_handle") holds for every class the
\* metaclass built, also when _handle is None
TyperCommand__call__(cls) ==
    IF "_handle" \in DOMAIN cls
    THEN IF cls._handle = Nothing THEN "TypeError" ELSE "handled"
    ELSE "NotImplementedError"

Routes == {"command_line", "call_command", "get_command", "direct_call"}

\* How using class cls by the given route ends.  Every route first instantiates
\* the class (get_command line 71; the framework's loader for the others).
UseOutcome(cls, route) ==
    IF Instantiate(cls) # "instance" THEN Instantiate(cls)
    ELSE CASE route = "get_command" -> "instance"
           [] route = "direct_call" -> TyperCommand__call__(cls)
           [] OTHER                 -> "dispatched"

(***************************************************************************)
(* The state after import of django_typer                                  *)
(***************************************************************************)
Init ==
    /\ wrapper = Nothing
    /\ invocation = Nothing
    /\ ctx_stack = <<>>
    /\ calls = {}
    /\ parse_call = Nothing
    /\ parse_result = Nothing
    /\ classes = [c \in {"TyperCommand"} |-> TyperCommandClass]
    /\ use = Nothing
    /\ round_trip = Nothing
    /\ instances = <<>>
    /\ op = Nothing
    /\ sys_stdout = "sys.__stdout__"
    /\ written = {}
    /\ help_call = Nothing
    /\ suppressed_base_arguments = {}
    /\ bare_call = Nothing
    /\ help_chain = <<>>
    /\ tree_app = Nothing
    /\ heap = <<>>
    /\ trees = <<>>
    /\ tree_op = Nothing

(***************************************************************************)
(* Class specification: define command classes, then use them              *)
(***************************************************************************)
\* The classes after class new was created.  Registration mutates the
\* application object new.typer_app in place, which every class holding that
\* same object sees.
WithClass(existing, new) ==
    [k \in DOMAIN existing \cup {new.name} |->
        IF k = new.name THEN new
        ELSE IF existing[k].app_id = new.app_id
             THEN [existing[k] EXCEPT !.typer_app = new.typer_app]
             ELSE existing[k]]

\* a class statement is executed: upstream first, either may derive from
\* TyperCommand, downstream also from upstream
DefineClass(c, base, body) ==
    /\ c \notin DOMAIN classes
    /\ base \in DOMAIN classes
    /\ classes[base].status = "ok"
    /\ c = "downstream" => "upstream" \in DOMAIN classes
    /\ classes' = WithClass(classes, BuildClass(c, base, body))
    /\ use' = Nothing
    /\ UNCHANGED <<adapterVars, dispatchVars, parseVars, routeVars, commandVars, helpVars, treeVars>>

\* a class that was created is run, called or looked up
UseClass(c, route) ==
    /\ c \in DOMAIN classes
    /\ classes[c].status = "ok"
    /\ use' = Some([class |-> c, route |-> route, outcome |-> UseOutcome(classes[c], route)])
    /\ UNCHANGED <<classes, adapterVars, dispatchVars, parseVars, routeVars, commandVars, helpVars, treeVars>>

NextClass ==
    \/ \E c \in UserClasses, base \in UserClasses \cup {"TyperCommand"}, body \in ClassBodies :
           DefineClass(c, base, body)
    \/ \E c \in UserClasses, route \in Routes : UseClass(c, route)

SpecClass == Init /\ [][NextClass]_vars

Registrations(c) == classes[c].typer_app.registered_commands

RegistrationsNamed(c, n) == {i \in DOMAIN Registrations(c) : CommandName(Registrations(c)[i]) = n}

\* C7: for S derived from B and every command name n registered on B's
\* application: if S redefines the method, S's application has exactly one
\* registration for n and it targets S's method; otherwise S's application
\* still contains B's registration for n, unchanged.
C7_InheritedRegistrations ==
    \A S \in DOMAIN classes \cap UserClasses :
        LET B == classes[S].base
        IN  (classes[S].status = "ok" /\ B \in UserClasses) =>
                \A i \in DOMAIN Registrations(B) :
                    LET reg == Registrations(B)[i]
                        n   == CommandName(reg)
                        m   == reg.callback[2]
                    IN  IF m \in DOMAIN classes[S].body /\ classes[S].body[m].kind = "command"
                        THEN /\ Cardinality(RegistrationsNamed(S, n)) = 1
                             /\ \A j \in RegistrationsNamed(S, n) :
                                    Registrations(S)[j].callback = <<S, m>>
                        ELSE \E j \in DOMAIN Registrations(S) : Registrations(S)[j] = reg

\* C8: every use of a class on which nothing was registered fails with
\* NotImplementedError
C8_EmptyClassNotImplemented ==
    (use # Nothing
        /\ classes[use[1].class].typer_app.registered_commands = <<>>
        /\ classes[use[1].class].typer_app.registered_callback = Nothing) =>
        use[1].outcome = "NotImplementedError"

\* C9: a plain, undecorated handle is registered exactly once as a command, named
\* by the last dotted component of the module that defines the class.
C9_PlainHandleRegistered ==
    \A c \in DOMAIN classes :
        ("handle" \in DOMAIN classes[c].body /\ classes[c].body["handle"] = Plain) =>
            LET mine == {i \in DOMAIN Registrations(c) : Registrations(c)[i].callback = <<c, "handle">>}
            IN  /\ classes[c].status = "ok"
                /\ Cardinality(mine) = 1
                /\ \A i \in mine :
                       /\ Registrations(c)[i].name = ModuleOf(c)[Len(ModuleOf(c))]
                       /\ CommandName(Registrations(c)[i]) = ModuleOf(c)[Len(ModuleOf(c))]

\* C9 witness: downstream, derived from upstream, defines a plain handle beside a
\* decorated command and has been created
C9_Witness ==
    /\ "downstream" \in DOMAIN classes
    /\ classes["downstream"].base = "upstream"
    /\ "handle" \in DOMAIN classes["downstream"].body
    /\ classes["downstream"].body["handle"] = Plain
    /\ "sub1" \in DOMAIN classes["downstream"].body
    /\ Len(Registrations("downstream")) = 2
    /\ Registrations("downstream")[1] = [name |-> "downstream", callback |-> <<"downstream", "handle">>]

\* the registrations on c's application that target c's own method m
RegistrationsOf(c, m) ==
    {i \in DOMAIN Registrations(c) : Registrations(c)[i].callback = <<c, m>>}

\* C22: after the construction of a class, each decorated method of its body (a
\* decorated handle included) no longer carries its deferred constructor and
\* has produced exactly one registration on the class's application, and
\* scanning the attributes again registers nothing further.
C22_DeferredConstructorConsumed ==
    \A c \in DOMAIN classes \cap UserClasses :
        LET cls == classes[c]
        IN  cls.status = "ok" =>
                /\ cls.ctor = {}
                /\ \A m \in DOMAIN cls.body :
                       /\ cls.body[m].kind = "command" => Cardinality(RegistrationsOf(c, m)) = 1
                       /\ cls.body[m].kind = "callback" =>
                              cls.typer_app.registered_callback = Some(<<c, m>>)
                /\ RegisterAttrs(cls, AttrOrder) = cls

\* C22 witness: downstream was created with a decorated handle, a callback and
\* a decorated command, each registered once
C22_Witness ==
    /\ "downstream" \in DOMAIN classes
    /\ classes["downstream"].status = "ok"
    /\ DOMAIN classes["downstream"].body = {"handle", "init", "sub1"}
    /\ classes["downstream"].body["handle"] = Decorated("command", None)
    /\ Len(Registrations("downstream")) = 2
    /\ classes["downstream"].typer_app.registered_callback = Some(<<"downstream", "init">>)

\* C23: every class owns one application object, created with the class and
\* distinct from the application object of every other class, its bases
\* included; creating a class and registering its decorated methods leaves the
\* application object of every existing class unchanged.
C23_OwnApplicationObject ==
    [][\A c \in DOMAIN classes' \ DOMAIN classes :
           /\ classes'[c].app_id = NewTyperId(c)
           /\ \A k \in DOMAIN classes :
                  /\ classes'[c].app_id # classes[k].app_id
                  /\ classes'[k].app_id = classes[k].app_id
                  /\ classes'[k].typer_app = classes[k].typer_app]_vars

\* C23 witness: downstream was derived from upstream and registered two
\* commands of its own while upstream holds the one it registered
C23_Witness ==
    /\ "downstream" \in DOMAIN classes
    /\ classes["downstream"].base = "upstream"
    /\ classes["downstream"].status = "ok"
    /\ DOMAIN classes["upstream"].body = {"sub1"}
    /\ DOMAIN classes["downstream"].body = {"handle", "sub_2"}
    /\ Len(Registrations("downstream")) = 2
    /\ Len(Registrations("upstream")) = 1

\* C28: a handle decorated with command(name=N), N not empty, is registered
\* by class construction exactly once under the name N, and class construction
\* completes without raising.
C28_NamedHandleRegistered ==
    \A c \in DOMAIN classes \cap UserClasses :
        ("handle" \in DOMAIN classes[c].body
            /\ classes[c].body["handle"].kind = "command"
            /\ classes[c].body["handle"].name # None) =>
            /\ classes[c].status = "ok"
            /\ Cardinality(RegistrationsOf(c, "handle")) = 1
            /\ \A i \in RegistrationsOf(c, "handle") :
                   CommandName(Registrations(c)[i]) = classes[c].body["handle"].name

\* the class whose handle attribute inheritance resolves for class c: its own,
\* otherwise that of the nearest base class; None when only TyperCommand's is left
RECURSIVE HandleOwner(_)
HandleOwner(c) ==
    IF c \notin UserClasses THEN None
    ELSE IF "handle" \in DOMAIN classes[c].body THEN c
    ELSE HandleOwner(classes[c].base)

\* C29: calling an instance of any class directly, a subclass that does not
\* define handle included, invokes the user-defined handle that attribute
\* inheritance resolves for the class and returns its result.
C29_DirectCallInheritedHandle ==
    (use # Nothing /\ use[1].route = "direct_call" /\ HandleOwner(use[1].class) # None) =>
        /\ use[1].outcome = "handled"
        /\ classes[use[1].class]._handle = Some(<<HandleOwner(use[1].class), "handle">>)

(***************************************************************************)
(* Adapter specification: construct a wrapper, invoke its call target      *)
(***************************************************************************)
KwNames == OwnNames \cup Range(COMMON_PARAM_NAMES) \cup {"self"}

KwValues == {"x", "y"}

KwargSets == UNION {[K -> KwValues] : K \in {S \in SUBSET KwNames : Cardinality(S) <= MaxKwargs}}

\* the suppression lists a command class may declare
SuppressionLists == {{}, {"verbosity", "traceback"}}

\* click.get_current_context(): the innermost active context; RuntimeError when
\* none is active (silent is not passed)
get_current_context(active) ==
    IF active = Nothing THEN Raised("RuntimeError", "There is no active click context.")
    ELSE Returned(active[1])

\* The wrapper's call target as a whole: the keyword arguments of callback(...)
\* are evaluated first, the lookup of the current context among them
call_target(w, kwargs, active) ==
    LET ctx == get_current_context(active)
    IN  IF ctx.kind = "raise" THEN ctx
        ELSE Returned(call_with_self(w, kwargs, ctx.value.django_command))

\* typer builds the command or group for a registered function of a class that
\* declares the given suppression list
Construct(f, suppressed) ==
    /\ invocation = Nothing
    /\ bare_call = Nothing
    /\ wrapper' = Some(DjangoAdapterMixin(f, FunctionParams(f)))
    /\ suppressed_base_arguments' = suppressed
    /\ UNCHANGED <<invocation, bare_call, dispatchVars, parseVars, classVars, routeVars,
                   commandVars, helpVars, treeVars>>

\* the wrapper's call target is called while no click context is active
InvokeWithoutContext(kwargs) ==
    /\ wrapper # Nothing
    /\ invocation = Nothing
    /\ bare_call = Nothing
    /\ bare_call' = Some([kwargs |-> kwargs, result |-> call_target(wrapper[1], kwargs, Nothing)])
    /\ UNCHANGED <<wrapper, invocation, suppressed_base_arguments, dispatchVars, parseVars,
                   classVars, routeVars, commandVars, helpVars, treeVars>>

\* that call has ended
BareCallDone ==
    /\ bare_call # Nothing
    /\ bare_call' = Nothing
    /\ UNCHANGED <<wrapper, invocation, suppressed_base_arguments, dispatchVars, parseVars,
                   classVars, routeVars, commandVars, helpVars, treeVars>>

\* click invokes the wrapper's callback with the context's parameters
Invoke(kwargs) ==
    /\ wrapper # Nothing
    /\ invocation = Nothing
    /\ bare_call = Nothing
    /\ invocation' = Some([kwargs   |-> kwargs,
                           received |-> call_with_self(wrapper[1], kwargs, "cmd")])
    /\ UNCHANGED <<wrapper, suppressed_base_arguments, bare_call, dispatchVars, parseVars,
                   classVars, routeVars, commandVars, helpVars, treeVars>>

\* the callback returns
Return ==
    /\ invocation # Nothing
    /\ invocation' = Nothing
    /\ UNCHANGED <<wrapper, suppressed_base_arguments, bare_call, dispatchVars, parseVars,
                   classVars, routeVars, commandVars, helpVars, treeVars>>

\* a wrapper exists and no call of its call target is in progress
Callable == wrapper # Nothing /\ invocation = Nothing /\ bare_call = Nothing

\* the keywords of a caller outside click: the method's own parameters
BareKwargSets == {kwargs \in KwargSets : DOMAIN kwargs \subseteq OwnNames}

NextAdapter ==
    \/ \E f \in Functions, suppressed \in SuppressionLists : Construct(f, suppressed)
    \/ Callable /\ \E kwargs \in KwargSets : Invoke(kwargs)
    \/ Return
    \/ Callable /\ \E kwargs \in BareKwargSets : InvokeWithoutContext(kwargs)
    \/ BareCallDone

SpecAdapter == Init /\ [][NextAdapter]_vars

\* The keywords the original method received besides its instance argument
ReceivedKeywords == Restrict(invocation[1].received,
                             DOMAIN invocation[1].received \ {wrapper[1].self_arg})

\* C1: a wrapped method is called with exactly the supplied keywords whose names
\* it declares (other than its instance parameter), each with the supplied value;
\* every other keyword is dropped and no declared one is.
C1_ExactlyDeclaredKeywords ==
    (invocation # Nothing /\ wrapper[1].func.is_method) =>
        LET kwargs == invocation[1].kwargs
            f      == wrapper[1].func
        IN  /\ DOMAIN ReceivedKeywords = DOMAIN kwargs \cap Declared(f)
            /\ \A k \in DOMAIN ReceivedKeywords : ReceivedKeywords[k] = kwargs[k]

\* C1 witness: a call that supplied a declared keyword, an undeclared common
\* option and an unrelated keyword
C1_Witness ==
    /\ invocation # Nothing
    /\ wrapper[1].func.is_method
    /\ "throw" \in Declared(wrapper[1].func)
    /\ "verbosity" \notin Declared(wrapper[1].func)
    /\ {"throw", "verbosity", "settings"} \subseteq DOMAIN invocation[1].kwargs
    /\ DOMAIN ReceivedKeywords = {"throw"}

CommonIndexes(c) == {i \in DOMAIN wrapper[1].params : wrapper[1].params[i].name = c}

C18_SuppressedNotInjected ==
    wrapper # Nothing =>
        \A n \in DOMAIN COMMON_PARAM_NAMES :
            LET c == COMMON_PARAM_NAMES[n]
            IN  c \notin Declared(wrapper[1].func) =>
                    IF c \in suppressed_base_arguments
                    THEN CommonIndexes(c) = {}
                    ELSE CommonIndexes(c) # {}

\* C19: a call of the call target while no context is active does not raise in
\* the adapter: the method is called with None as its instance argument and the
\* filtered keywords.
C19_NoContextPassesNone ==
    (bare_call # Nothing /\ wrapper[1].func.is_method) =>
        /\ bare_call[1].result.kind = "return"
        /\ bare_call[1].result.value =
               Update(Restrict(bare_call[1].kwargs, Declared(wrapper[1].func)),
                      [k \in {wrapper[1].self_arg} |-> None])

\* C27: for a function written as a static method, without instance parameter,
\* every declared parameter is among the wrapper's CLI parameters, and the
\* function is called with no instance argument and with no keyword it does not
\* declare.
C27_StaticMethodNoInstance ==
    (wrapper # Nothing /\ ~wrapper[1].func.is_method) =>
        /\ Declared(wrapper[1].func) \subseteq Range(ParamNames(wrapper[1].params))
        /\ invocation # Nothing =>
               /\ DOMAIN invocation[1].received \subseteq Declared(wrapper[1].func)
               /\ \A k \in DOMAIN invocation[1].received :
                      invocation[1].received[k] = invocation[1].kwargs[k]

(***************************************************************************)
(* Context and the handle trampoline                                       *)
(***************************************************************************)
Instances == {"cmd_a", "cmd_b"}     \* command instances alive in the process

\* Context.__init__(command, parent, django_command, _resolved_params):
\* parent is Nothing or Some(parent context), django_command an instance or None
ContextNoInherit(command, parent, django_command, _resolved_params) ==
    [command        |-> command,
     django_command |-> django_command,
     params         |-> _resolved_params,
     children       |-> <<>>]

Context(command, parent, django_command, _resolved_params) ==
    [command        |-> command,
     django_command |-> IF django_command = None /\ parent # Nothing
                        THEN parent[1].django_command
                        ELSE django_command,
     params         |-> _resolved_params,
     children       |-> <<>>]

\* parent.children.append(self)
AppendChild(parent, child) == [parent EXCEPT !.children = Append(@, child.command)]

\* getattr(click.get_current_context(), "django_command", None)
CurrentDjangoCommand == ctx_stack[Len(ctx_stack)].ctx.django_command

Top == ctx_stack[Len(ctx_stack)]

\* the command instance that is current: the one of click's innermost active
\* context, None when no context is active
CurrentInstance == IF ctx_stack = <<>> THEN None ELSE Top.ctx.django_command

\* leaving contexts so that every context is forgotten
pop_all_contexts(stack, n) == <<>>

\* leaving the contexts above the first n (Context.__exit__ -> pop_context)
pop_context(stack, n) == SubSeq(stack, 1, n)

\* the position of the root context of the dispatch the top context belongs to
DispatchRoot ==
    CHOOSE r \in DOMAIN ctx_stack :
        /\ ctx_stack[r].ctx.command = 1
        /\ \A j \in (r + 1)..Len(ctx_stack) : ctx_stack[j].ctx.command # 1

\* handle(self, *args, **options): typer_app(..., django_command=self) makes the
\* root context and enters it.  A method body may dispatch another command.
handle(self) ==
    /\ Len(ctx_stack) < MaxStack
    /\ IF ctx_stack = <<>> THEN TRUE ELSE Top.pc = "in_callback"
    /\ ctx_stack' = Append(ctx_stack,
                           [ctx      |-> Context(1, Nothing, self, EmptyMap),
                            dispatch |-> self,
                            before   |-> CurrentInstance,
                            pc       |-> "entered"])
    /\ UNCHANGED <<calls, adapterVars, parseVars, classVars, routeVars, commandVars, helpVars, treeVars>>

\* click invokes the command's callback, call_with_self, under the top context
InvokeCallback ==
    /\ ctx_stack # <<>>
    /\ Top.pc = "entered"
    /\ calls' = calls \cup {[dispatch |-> Top.dispatch,
                              depth    |-> Top.ctx.command,
                              instance |-> call_with_self(
                                               [expected |-> <<>>, self_arg |-> "self"],
                                               EmptyMap, CurrentDjangoCommand).self]}
    /\ ctx_stack' = [ctx_stack EXCEPT ![Len(ctx_stack)].pc = "in_callback"]
    /\ UNCHANGED <<adapterVars, parseVars, classVars, routeVars, commandVars, helpVars, treeVars>>

\* the method body returns
CallbackReturn ==
    /\ ctx_stack # <<>>
    /\ Top.pc = "in_callback"
    /\ ctx_stack' = [ctx_stack EXCEPT ![Len(ctx_stack)].pc = "returned"]
    /\ UNCHANGED <<calls, adapterVars, parseVars, classVars, routeVars, commandVars, helpVars, treeVars>>

\* a group resolves its subcommand: cmd.make_context(name, args, parent=ctx)
Descend ==
    /\ ctx_stack # <<>>
    /\ Len(ctx_stack) < MaxStack
    /\ Top.pc = "returned"
    /\ Top.ctx.command < MaxDepth
    /\ LET child == Context(Top.ctx.command + 1, Some(Top.ctx), None, EmptyMap)
       IN  ctx_stack' = Append(
               [ctx_stack EXCEPT ![Len(ctx_stack)].pc = "dispatched",
                                 ![Len(ctx_stack)].ctx = AppendChild(@, child)],
               [ctx |-> child, dispatch |-> Top.dispatch, before |-> CurrentInstance,
                pc |-> "entered"])
    /\ UNCHANGED <<calls, adapterVars, parseVars, classVars, routeVars, commandVars, helpVars, treeVars>>

\* the top context exits
ExitContext ==
    /\ ctx_stack # <<>>
    /\ Top.pc \in {"returned", "dispatched"}
    /\ ctx_stack' = pop_context(ctx_stack, Len(ctx_stack) - 1)
    /\ UNCHANGED <<calls, adapterVars, parseVars, classVars, routeVars, commandVars, helpVars, treeVars>>

\* the method body raises: the exception leaves every context of this dispatch,
\* out of handle, into the method body that called handle (if any)
CallbackRaise ==
    /\ ctx_stack # <<>>
    /\ Top.pc = "in_callback"
    /\ ctx_stack' = pop_context(ctx_stack, DispatchRoot - 1)
    /\ UNCHANGED <<calls, adapterVars, parseVars, classVars, routeVars, commandVars, helpVars, treeVars>>

NextDispatch ==
    \/ \E self \in Instances : handle(self)
    \/ InvokeCallback
    \/ CallbackReturn
    \/ Descend
    \/ ExitContext
    \/ CallbackRaise

SpecDispatch == Init /\ [][NextDispatch]_vars

\* C2: every callback and command method run during a dispatch, at every depth,
\* receives the instance whose handle was called: never None, never another one.
C2_DispatchedInstance ==
    /\ \A c \in calls : c.instance = c.dispatch
    /\ \A i \in DOMAIN ctx_stack : ctx_stack[i].ctx.django_command = ctx_stack[i].dispatch

\* C2 witness: a method at depth 3 of one instance's dispatch has run while a
\* dispatch of the other instance was open around it
C2_Witness ==
    /\ Len(ctx_stack) = 4
    /\ ctx_stack[1].dispatch = "cmd_b"
    /\ ctx_stack[4].dispatch = "cmd_a"
    /\ ctx_stack[4].ctx.command = 3
    /\ ctx_stack[4].pc = "in_callback"
    /\ [dispatch |-> "cmd_a", depth |-> 3, instance |-> "cmd_a"] \in calls

ParsedNames == {"precision", "verbosity"}

\* The value the i-th context parsed, distinct per context
ParsedValue(i) == "v" \o ToString(i)

\* A context made by cmd.make_context(...): parent is the index of the context it
\* was built with as parent= (0 for the root), names is what it parsed.  Contexts
\* are kept in creation order, which is the order of parent.children.
ParseContext(i, parent, names) == [parent |-> parent, params |-> [k \in names |-> ParsedValue(i)]]

ParamsOf(t, i) == t[i].params

\* ctx.children, in append order
Children(t, i) == SelectSeq([j \in 1..Len(t) |-> j], LAMBDA j : t[j].parent = i)

\* How make_context ends: it returns the root context, or raises a usage error
\* or a clean exit carrying an exit code
LibOutcomes ==
    {[kind |-> "ok", code |-> "0"], [kind |-> "UsageError", code |-> "2"]}
    \cup {[kind |-> "Exit", code |-> c] : c \in {"0", "2"}}

\* args as the caller gives them: None, or a sequence of strings
ArgVectors == {Nothing, Some(<<>>), Some(<<"test", "5", "samename", "7">>)}

\* args or []
ArgsOrEmpty(args) == IF args = Nothing THEN <<>> ELSE args[1]

\* discover_parsed_args(ctx): for each child, first the child's own descendants,
\* then params.update(child.params)
RECURSIVE discover_parsed_args(_, _, _), discover_children(_, _, _)
discover_children(t, cs, params) ==
    IF cs = <<>> THEN params
    ELSE discover_children(t, Tail(cs),
             Update(discover_parsed_args(t, Head(cs), params), ParamsOf(t, Head(cs))))

discover_parsed_args(t, i, params) == discover_children(t, Children(t, i), params)

\* _ParsedArgs(args=..., **kwargs)
_ParsedArgs(args, kwargs) == [args |-> args, namespace |-> kwargs]

\* {**_common_options(), **params}
DefaultsOverParsed(params) == Update(params, _common_options)

WithCommonDefaults(params) == Update(_common_options, params)

NoResult == [kind |-> "none", value |-> _ParsedArgs(<<>>, EmptyMap), exc |-> None, code |-> None]

\* a parse_args that swallows the clean-exit signal and returns a namespace
parse_args_swallowing_exit(args, tree, outcome) ==
    IF outcome.kind \in {"ok", "Exit"}
    THEN [NoResult EXCEPT
             !.kind = "return",
             !.value = _ParsedArgs(ArgsOrEmpty(args),
                           WithCommonDefaults(
                               discover_parsed_args(tree, 1, ParamsOf(tree, 1))))]
    ELSE [NoResult EXCEPT !.kind = "raise", !.exc = outcome.kind, !.code = outcome.code]

\* parse_args(args): the try body and the except clause
parse_args(args, tree, outcome) ==
    CASE outcome.kind = "ok" ->
            [NoResult EXCEPT
                !.kind = "return",
                !.value = _ParsedArgs(ArgsOrEmpty(args),
                              WithCommonDefaults(
                                  discover_parsed_args(tree, 1, ParamsOf(tree, 1))))]
      [] outcome.kind = "Exit" ->
            \* except click.exceptions.Exit: sys.exit()
            [NoResult EXCEPT !.kind = "raise", !.exc = "SystemExit", !.code = None]
      [] OTHER ->
            \* any other exception propagates
            [NoResult EXCEPT !.kind = "raise", !.exc = outcome.kind, !.code = outcome.code]

\* parser.parse_args(args) is called (run_from_argv, call_command): make_context
\* builds the root context and parses its parameters
ParseArgs(args, names) ==
    /\ parse_call = Nothing
    /\ parse_call' = Some([args |-> args,
                           tree |-> <<ParseContext(1, 0, names)>>,
                           outcome |-> [kind |-> "parsing", code |-> "0"]])
    /\ UNCHANGED <<parse_result, adapterVars, dispatchVars, classVars, routeVars, commandVars, helpVars, treeVars>>

\* a context for a subcommand is built with parent=<a context of this parse>
MakeChildContext(parent, names) ==
    /\ parse_call # Nothing
    /\ parse_call[1].outcome.kind = "parsing"
    /\ Len(parse_call[1].tree) < MaxContexts
    /\ parent \in DOMAIN parse_call[1].tree
    /\ parse_call' = Some([parse_call[1] EXCEPT !.tree = Append(@, ParseContext(Len(@) + 1, parent, names))])
    /\ UNCHANGED <<parse_result, adapterVars, dispatchVars, classVars, routeVars, commandVars, helpVars, treeVars>>

\* make_context returns or raises, and parse_args with it
FinishParse(outcome) ==
    /\ parse_call # Nothing
    /\ parse_call[1].outcome.kind = "parsing"
    /\ parse_call' = Some([parse_call[1] EXCEPT !.outcome = outcome])
    /\ parse_result' = Some(parse_args(parse_call[1].args, parse_call[1].tree, outcome))
    /\ UNCHANGED <<adapterVars, dispatchVars, classVars, routeVars, commandVars, helpVars, treeVars>>

\* the caller is done with the result
ParseDone ==
    /\ parse_call # Nothing
    /\ parse_result # Nothing
    /\ parse_call' = Nothing
    /\ parse_result' = Nothing
    /\ UNCHANGED <<adapterVars, dispatchVars, classVars, routeVars, commandVars, helpVars, treeVars>>

NextParse ==
    \/ \E args \in ArgVectors, names \in SUBSET ParsedNames : ParseArgs(args, names)
    \/ \E parent \in 1..MaxContexts, names \in SUBSET ParsedNames : MakeChildContext(parent, names)
    \/ \E outcome \in LibOutcomes : FinishParse(outcome)
    \/ ParseDone

SpecParse == Init /\ [][NextParse]_vars

RECURSIVE IsAncestor(_, _, _)
IsAncestor(t, i, j) ==
    IF j = 0 \/ t[j].parent = 0 THEN FALSE
    ELSE t[j].parent = i \/ IsAncestor(t, i, t[j].parent)

Parsed == parse_result # Nothing /\ parse_call[1].outcome.kind = "ok"

Namespace == parse_result[1].value.namespace

C5_CommonOptionsInNamespace ==
    Parsed =>
        LET t == parse_call[1].tree
        IN  /\ parse_result[1].kind = "return"
            /\ \A i \in DOMAIN COMMON_PARAM_NAMES :
                    LET c == COMMON_PARAM_NAMES[i]
                    IN  /\ c \in DOMAIN Namespace
                        /\ IF \E j \in DOMAIN t : c \in DOMAIN t[j].params
                           THEN \E j \in DOMAIN t : c \in DOMAIN t[j].params
                                                      /\ Namespace[c] = ParsedValue(j)
                           ELSE Namespace[c] = _common_options[c]
            /\ parse_result[1].value.args = ArgsOrEmpty(parse_call[1].args)

\* C5 witness: a parse of a non-empty vector in which a nested context parsed
\* verbosity and no context parsed the other common options
C5_Witness ==
    /\ Parsed
    /\ parse_call[1].args = Some(<<"test", "5", "samename", "7">>)
    /\ Len(parse_call[1].tree) >= 2
    /\ "verbosity" \in DOMAIN parse_call[1].tree[2].params
    /\ "verbosity" \notin DOMAIN parse_call[1].tree[1].params
    /\ Namespace["verbosity"] = ParsedValue(2)
    /\ Namespace["traceback"] = "False"

\* C10: a usage error raised while parsing reaches the caller as CommandError
C10_UsageErrorIsCommandError ==
    (parse_result # Nothing /\ parse_call[1].outcome.kind = "UsageError") =>
        parse_result[1].kind = "raise" /\ parse_result[1].exc = "CommandError"

\* The exit status of the process when SystemExit(code) ends it: sys.exit()
\* without an argument is SystemExit(None), status 0
ExitStatus(code) == IF code = None THEN "0" ELSE code

ExitSignalled == parse_result # Nothing /\ parse_call[1].outcome.kind = "Exit"

C12_ExitStatusForwarded ==
    ExitSignalled =>
        /\ parse_result[1].kind = "raise"
        /\ ExitStatus(parse_result[1].code) = parse_call[1].outcome.code

(***************************************************************************)
(* Invocation routes: command line, call_command, direct call              *)
(***************************************************************************)
\* The command method under test, as basic.Command.handle and dj_params4:
\*   def handle(self, arg1: str, arg4: int = 1, traceback: bool = True)
TestedMethod == [sig |-> <<"self", "arg1", "arg4", "traceback">>, is_method |-> TRUE]

TestedWrapper == DjangoAdapterMixin(TestedMethod, FunctionParams(TestedMethod))

\* A group without a callback of its own (multi.Command): only the common options
GroupWrapper == DjangoAdapterMixin([sig |-> <<>>, is_method |-> FALSE], <<>>)

\* Python values by their repr: the str made of text, the int or bool text denotes
StrValue(text) == "'" \o text \o "'"

ParamType(n) ==
    CASE n = "arg1" -> "str"
      [] n \in {"arg4", "verbosity"} -> "int"
      [] n \in {"settings"} -> "str"
      [] OTHER -> "bool"

\* click's conversion of a command-line text to the parameter's type
Convert(type, text) == IF type = "str" THEN StrValue(text) ELSE text

\* The default typer takes from the signature (the method's own, or _common_options)
SignatureDefault(w, n) ==
    CASE n = "arg1" -> None
      [] n = "arg4" -> "1"
      [] n = "traceback" /\ n \in Range(w.expected) -> "True"
      [] OTHER -> _common_options[n]

\* An argument vector is a sequence of tokens: the parameter a token sets and its
\* text (a1 -> arg1 "a1", --arg4 2 -> arg4 "2", --no-traceback -> traceback "False")
Token(n, text) == [name |-> n, text |-> text]

\* What parsing argv leaves in the params of the context of wrapper w: every
\* parameter of w gets its converted text, or its default when argv has none
ClickParse(w, argv) ==
    [n \in Range(ParamNames(w.params)) |->
        IF \E i \in DOMAIN argv : argv[i].name = n
        THEN Convert(ParamType(n), argv[CHOOSE i \in DOMAIN argv : argv[i].name = n].text)
        ELSE SignatureDefault(w, n)]

\* The method body: json.dumps of the parameters it received
MethodBody(received) == Restrict(received, Declared(TestedMethod))

\* handle(self, *args, **options), lines 312-318: typer_app(args=args,
\* _resolved_params=options, django_command=self).  The root context starts from
\* options (Context.__init__) and then holds what it parsed; for a group the
\* subcommand's context is built with parent=root and no _resolved_params.
typer_app_call(shape, self, args, options) ==
    IF shape = "command"
    THEN LET root == Context("command", Nothing, self, options)
             params == Update(root.params, ClickParse(TestedWrapper, args))
         IN  MethodBody(call_with_self(TestedWrapper, params, root.django_command))
    ELSE LET root == Context("group", Nothing, self, options)
             child == Context("command", Some(root), None, EmptyMap)
             params == Update(child.params, ClickParse(TestedWrapper, args))
         IN  MethodBody(call_with_self(TestedWrapper, params, child.django_command))

\* The contexts make_context builds for argv, as parse_args reads them
ParseTree(shape, argv) ==
    IF shape = "command"
    THEN <<[parent |-> 0, params |-> ClickParse(TestedWrapper, argv)]>>
    ELSE <<[parent |-> 0, params |-> ClickParse(GroupWrapper, <<>>)],
           [parent |-> 1, params |-> ClickParse(TestedWrapper, argv)]>>

ParsedNamespace(shape, argv) ==
    parse_args(Some(argv), ParseTree(shape, argv), [kind |-> "ok", code |-> "0"]).value

\* _ParsedArgs._get_kwargs, lines 83-84: args and the common defaults only
_get_kwargs(ns) == [args |-> ns.args, options |-> _common_options]

\* run_from_argv: options = vars(parser.parse_args(argv)); args = options.pop("args");
\* execute(*args, **options) calls handle(*args, **options)
CommandLine(shape, self, argv) ==
    LET ns == ParsedNamespace(shape, argv)
    IN  typer_app_call(shape, self, ns.args, ns.namespace)

\* call_command(name, *argv, **keywords): defaults = parser.parse_args(argv);
\* defaults = dict(defaults._get_kwargs(), **keywords); execute(*args, **defaults)
CallCommand(shape, self, argv, keywords) ==
    LET defaults == _get_kwargs(ParsedNamespace(shape, argv))
    IN  typer_app_call(shape, self, defaults.args, Update(defaults.options, keywords))

\* The method's own defaults, filled in by Python on a direct call
PythonDefaults == [arg4 |-> "1", traceback |-> "True"]

\* TyperCommand.__call__ -> self._handle(*args, **kwargs), or the bound method
DirectCall(self, kwargs) ==
    MethodBody(Update(Update(PythonDefaults, kwargs), [k \in {"self"} |-> self]))

\* One input: the text of arg1, and optionally of arg4 and traceback
Inputs ==
    {i \in [arg1 : {"a1", "a2"}, arg4 : {None, "1", "2"}, traceback : {None, "False"}] : TRUE}

OptionNames(i) == {n \in {"arg4", "traceback"} : i[n] # None}

\* the input as an argument vector: a1 [--arg4 N] [--no-traceback]
AsArgv(i) ==
    <<Token("arg1", i.arg1)>>
    \o (IF i.arg4 # None THEN <<Token("arg4", i.arg4)>> ELSE <<>>)
    \o (IF i.traceback # None THEN <<Token("traceback", i.traceback)>> ELSE <<>>)

\* the options of the input as native keyword arguments
AsKeywords(i) == [n \in OptionNames(i) |-> Convert(ParamType(n), i[n])]

AsNative(i) == Update([k \in {"arg1"} |-> StrValue(i.arg1)], AsKeywords(i))

InvocationRoutes == {"command_line", "call_command_argv", "call_command_keywords", "direct"}

\* an input is chosen for a command of the given shape
ChooseInput(shape, i) ==
    /\ round_trip = Nothing
    /\ round_trip' = Some([shape |-> shape, input |-> i, results |-> EmptyMap])
    /\ UNCHANGED <<adapterVars, dispatchVars, parseVars, classVars, commandVars, helpVars, treeVars>>

Record(route, result) ==
    /\ round_trip # Nothing
    /\ route \notin DOMAIN round_trip[1].results
    /\ round_trip' = Some([round_trip[1] EXCEPT
                              !.results = Update(@, [r \in {route} |-> result])])
    /\ UNCHANGED <<adapterVars, dispatchVars, parseVars, classVars, commandVars, helpVars, treeVars>>

\* manage.py <command> a1 [--arg4 N] [--no-traceback]
RunCommandLine ==
    /\ round_trip # Nothing
    /\ Record("command_line",
              CommandLine(round_trip[1].shape, "cmd_a", AsArgv(round_trip[1].input)))

\* call_command(<command>, "a1", "--arg4", "N", ...)
RunCallCommandArgv ==
    /\ round_trip # Nothing
    /\ Record("call_command_argv",
              CallCommand(round_trip[1].shape, "cmd_a", AsArgv(round_trip[1].input), EmptyMap))

\* call_command(<command>, "a1", arg4=N, ...)
RunCallCommandKeywords ==
    /\ round_trip # Nothing
    /\ Record("call_command_keywords",
              CallCommand(round_trip[1].shape, "cmd_a",
                          <<Token("arg1", round_trip[1].input.arg1)>>,
                          AsKeywords(round_trip[1].input)))

\* command("a1", arg4=N, ...) or the bound method
RunDirect ==
    /\ round_trip # Nothing
    /\ Record("direct", DirectCall("cmd_a", AsNative(round_trip[1].input)))

\* the comparison is over
ForgetInput ==
    /\ round_trip # Nothing
    /\ DOMAIN round_trip[1].results = InvocationRoutes
    /\ round_trip' = Nothing
    /\ UNCHANGED <<adapterVars, dispatchVars, parseVars, classVars, commandVars, helpVars, treeVars>>

NextRoutes ==
    \/ \E shape \in {"command", "group"}, i \in Inputs : ChooseInput(shape, i)
    \/ RunCommandLine
    \/ RunCallCommandArgv
    \/ RunCallCommandKeywords
    \/ RunDirect
    \/ ForgetInput

SpecRoutes == Init /\ [][NextRoutes]_vars

\* C6: for every command and input, the command line, call_command and the direct
\* call run the method with equal parameter values and give equal results.
C6_RoutesAgree ==
    round_trip # Nothing =>
        \A r1, r2 \in DOMAIN round_trip[1].results :
            round_trip[1].results[r1] = round_trip[1].results[r2]

\* The routes that take the whole input as an argument vector agree with the
\* direct call
ArgvRoutesAgree ==
    round_trip # Nothing =>
        \A r1, r2 \in DOMAIN round_trip[1].results \ {"call_command_keywords"} :
            round_trip[1].results[r1] = round_trip[1].results[r2]

(***************************************************************************)
(* Command instances: get_command, the command tree, the parser facade     *)
(***************************************************************************)
\* TyperParser.add_argument(*args, **kwargs): pass
add_argument(args, kwargs) == Returned(None)

\* the positional and keyword arguments of an add_argument call
AddArgumentArgs == {<<>>, <<"--flag">>, <<"-f", "--flag">>}

AddArgumentKwargs == SUBSET {"action", "dest", "required"}

\* parser.add_argument(*args, **kwargs) is called
AddArgument(args, kwargs) ==
    /\ help_call = Nothing
    /\ op = Nothing
    /\ op' = Some([name |-> "add_argument", args |-> args, kwargs |-> kwargs,
                   result |-> add_argument(args, kwargs)])
    /\ UNCHANGED <<instances, sys_stdout, written, help_call>>
    /\ UNCHANGED <<adapterVars, dispatchVars, parseVars, classVars, routeVars, helpVars, treeVars>>

\* get_commands(): the command names registered with the framework
RegisteredCommands == {"callback1", "groups"}

CommandNames == RegisteredCommands \cup {"missing"}

\* the names a subcommand path may hold
Segments == {"init", "math", "multiply"}

Paths == SeqsUpTo(Segments, MaxPath)

\* the function object a class defines as method m
Method(c, m) == <<c, m, "function">>

\* typer's callback wrapper around the function a class defines: another
\* function object, in which update_wrapper leaves the function as __wrapped__
TyperWrapper(func) == <<func[1], func[2], "wrapper">>

__wrapped__(callback) == <<callback[1], callback[2], "function">>

\* A click command or group as DjangoAdapterMixin.__init__ leaves it: its name and
\* self._callback (Nothing for a group without a callback)
ClickCommand(name, callback) == [name |-> name, _callback |-> callback]

\* get_typer_command(typer_app) of each registered class, by the path of names
\* from the root: callback1 a callback named init and the command handle, named
\* after the module; groups a group math that holds the command multiply
CommandStructure(c) ==
    CASE c = "callback1" ->
            (<<>> :> ClickCommand("callback1", Some(TyperWrapper(Method("callback1", "init")))))
            @@ (<<"callback1">> :>
                   ClickCommand("callback1", Some(TyperWrapper(Method("callback1", "handle")))))
      [] c = "groups" ->
            (<<>> :> ClickCommand("groups", Nothing))
            @@ (<<"math">> :> ClickCommand("math", Some(TyperWrapper(Method("groups", "math")))))
            @@ (<<"math", "multiply">> :>
                   ClickCommand("multiply", Some(TyperWrapper(Method("groups", "multiply")))))

\* _filter_commands(ctx): the commands of the group at path
_filter_commands(c, path) ==
    {n \in Segments : Append(path, n) \in DOMAIN CommandStructure(c)}

\* _build_cmd_tree: one CommandNode per command, its children keyed by name.
\* A node is named by its path from the root.
CommandNode(c, path) ==
    [name     |-> CommandStructure(c)[path].name,
     command  |-> CommandStructure(c)[path],
     path     |-> path,
     children |-> _filter_commands(c, path)]

NoSuchCommand(segment) == <<"No such command", segment>>

\* CommandNode.get_command with an except clause that catches every lookup failure
RECURSIVE get_command_catching_all(_, _, _)
get_command_catching_all(c, node, command_path) ==
    IF command_path = <<>> THEN Returned(node)
    ELSE IF Head(command_path) \in node.children
         THEN LET r == get_command_catching_all(
                           c, CommandNode(c, Append(node.path, Head(command_path))),
                           Tail(command_path))
              IN  IF r.kind = "raise"
                  THEN Raised("ValueError", NoSuchCommand(Head(command_path)))
                  ELSE r
         ELSE Raised("ValueError", NoSuchCommand(Head(command_path)))

\* CommandNode.get_command(*command_path): a KeyError of the children lookup, or
\* one coming out of the recursive call, becomes ValueError naming command_path[0]
RECURSIVE CommandNode_get_command(_, _, _)
CommandNode_get_command(c, node, command_path) ==
    IF command_path = <<>> THEN Returned(node)
    ELSE LET tried ==
                 IF Head(command_path) \in node.children
                 THEN CommandNode_get_command(
                          c, CommandNode(c, Append(node.path, Head(command_path))),
                          Tail(command_path))
                 ELSE Raised("KeyError", Head(command_path))
         IN  IF tried.kind = "raise" /\ tried.exc = "KeyError"
             THEN Raised("ValueError", NoSuchCommand(Head(command_path)))
             ELSE tried

\* TyperCommand.get_subcommand(*command_path)
get_subcommand(c, command_path) ==
    CommandNode_get_command(c, CommandNode(c, <<>>), command_path)

\* how an instance may be configured: stdout, stderr, no_color, force_color
InstanceOptions ==
    {[stdout |-> None, stderr |-> None, no_color |-> FALSE, force_color |-> FALSE],
     [stdout |-> "buffer", stderr |-> "errors", no_color |-> TRUE, force_color |-> FALSE]}

\* the streams sys.stdout may be bound to when a command is used
ProcessStreams == {"sys.__stdout__", "capture"}

\* BaseCommand.__init__: self.stdout = OutputWrapper(stdout or sys.stdout)
OutputWrapper(stream) == IF stream = None THEN sys_stdout ELSE stream

\* TyperCommand.__init__(stdout, stderr, no_color, force_color); out is the
\* stream self.stdout writes to
TyperCommandInstance(c, options) ==
    [class |-> c, stdout |-> options.stdout, stderr |-> options.stderr,
     no_color |-> options.no_color, force_color |-> options.force_color,
     out |-> OutputWrapper(options.stdout)]

\* MethodType(method, cmd): cmd is the position of the instance in instances
MethodType(method, cmd) == [__func__ |-> method, __self__ |-> cmd]

\* a get_command that binds the command's callback itself
get_command_binding_callback(command_name, subcommand, cmd) ==
    IF command_name \notin RegisteredCommands THEN Raised("KeyError", command_name)
    ELSE IF subcommand = <<>> THEN Returned(cmd)
    ELSE LET found == get_subcommand(command_name, subcommand)
         IN  IF found.kind = "raise" THEN found
             ELSE IF found.value.command._callback = Nothing
                  THEN Raised("AttributeError", "__wrapped__")
                  ELSE Returned(MethodType(found.value.command._callback[1], cmd))

\* get_command(command_name, *subcommand, ...): cmd is the instance just built
get_command(command_name, subcommand, cmd) ==
    IF command_name \notin RegisteredCommands
    THEN \* get_commands()[command_name]
         Raised("KeyError", command_name)
    ELSE IF subcommand = <<>> THEN Returned(cmd)
    ELSE LET found == get_subcommand(command_name, subcommand)
         IN  IF found.kind = "raise" THEN found
             ELSE IF found.value.command._callback = Nothing
                  THEN \* None has no __wrapped__
                       Raised("AttributeError", "__wrapped__")
                  ELSE Returned(MethodType(__wrapped__(found.value.command._callback[1]), cmd))

\* get_command(...) is called; the instance is built before the path is looked up
GetCommand(command_name, subcommand, options) ==
    /\ help_call = Nothing
    /\ op = Nothing
    /\ Len(instances) < MaxInstances
    /\ instances' = IF command_name \in RegisteredCommands
                    THEN Append(instances, TyperCommandInstance(command_name, options))
                    ELSE instances
    /\ op' = Some([name |-> "get_command", args |-> <<command_name>> \o subcommand,
                   kwargs |-> options,
                   result |-> get_command(command_name, subcommand, Len(instances) + 1)])
    /\ UNCHANGED <<sys_stdout, written, help_call>>
    /\ UNCHANGED <<adapterVars, dispatchVars, parseVars, classVars, routeVars, helpVars, treeVars>>

\* cmd.get_subcommand(*command_path) on an instance built earlier
GetSubcommand(cmd, command_path) ==
    /\ help_call = Nothing
    /\ op = Nothing
    /\ cmd \in DOMAIN instances
    /\ op' = Some([name |-> "get_subcommand", args |-> <<instances[cmd].class>> \o command_path,
                   kwargs |-> cmd,
                   result |-> get_subcommand(instances[cmd].class, command_path)])
    /\ UNCHANGED <<instances, sys_stdout, written, help_call>>
    /\ UNCHANGED <<adapterVars, dispatchVars, parseVars, classVars, routeVars, helpVars, treeVars>>

\* C13: every call of TyperParser.add_argument raises NotImplementedError; none
\* returns normally.
C13_AddArgumentRaises ==
    (op # Nothing /\ op[1].name = "add_argument") =>
        /\ op[1].result.kind = "raise"
        /\ op[1].result.exc = "NotImplementedError"

\* the caller binds sys.stdout to a stream of its own
RebindStdout(stream) ==
    /\ help_call = Nothing
    /\ op = Nothing
    /\ stream # sys_stdout
    /\ sys_stdout' = stream
    /\ UNCHANGED <<instances, op, written, help_call>>
    /\ UNCHANGED <<adapterVars, dispatchVars, parseVars, classVars, routeVars, helpVars, treeVars>>

\* the rendered help of the node at path of class c
Help(c, path) == <<"Usage:", c>> \o path

\* a print_help that leaves sys.stdout as it is
no_redirect(current, new_target) == current

\* contextlib.redirect_stdout(new_target).__enter__: sys.stdout = new_target
redirect_stdout(current, new_target) == new_target

\* what command.get_help(context) may do: print the help to sys.stdout (typer's
\* rich renderer), return it as text without printing, or raise
RenderOutcomes == {"printed", "returned", "raised"}

\* cmd.print_help(prog_name, subcommand, *cmd_path) up to the rendering:
\* create_parser, get_subcommand, and entry of the redirect_stdout block
PrintHelp(cmd, cmd_path) ==
    /\ help_call = Nothing
    /\ op = Nothing
    /\ cmd \in DOMAIN instances
    /\ LET found == get_subcommand(instances[cmd].class, cmd_path)
       IN  IF found.kind = "raise"
           THEN /\ op' = Some([name |-> "print_help",
                               args |-> <<instances[cmd].class>> \o cmd_path,
                               kwargs |-> cmd, result |-> found])
                /\ UNCHANGED <<sys_stdout, written, help_call>>
           ELSE /\ help_call' = Some([cmd |-> cmd, node |-> found.value,
                                      old_target |-> sys_stdout])
                /\ sys_stdout' = redirect_stdout(sys_stdout, instances[cmd].out)
                /\ UNCHANGED <<op, written>>
    /\ UNCHANGED instances
    /\ UNCHANGED <<adapterVars, dispatchVars, parseVars, classVars, routeVars, helpVars, treeVars>>

\* command_node.print_help() inside the block, and the exit of the block, which
\* binds sys.stdout to the stream saved on entry also when rendering raised
RenderHelp(outcome) ==
    /\ help_call # Nothing
    /\ written' = IF outcome = "printed"
                  THEN {[stream |-> sys_stdout,
                         text |-> Help(instances[help_call[1].cmd].class, help_call[1].node.path)]}
                  ELSE {}
    /\ sys_stdout' = help_call[1].old_target
    /\ op' = Some([name |-> "print_help",
                   args |-> <<instances[help_call[1].cmd].class>> \o help_call[1].node.path,
                   kwargs |-> help_call[1].cmd,
                   stdout_before |-> help_call[1].old_target,
                   result |-> IF outcome = "raised" THEN Raised("Exception", "get_help")
                              ELSE Returned(None)])
    /\ help_call' = Nothing
    /\ UNCHANGED instances
    /\ UNCHANGED <<adapterVars, dispatchVars, parseVars, classVars, routeVars, helpVars, treeVars>>

\* the caller is done with the result of the operation
OperationDone ==
    /\ op # Nothing
    /\ help_call = Nothing
    /\ op' = Nothing
    /\ written' = {}
    /\ UNCHANGED <<instances, sys_stdout, help_call>>
    /\ UNCHANGED <<adapterVars, dispatchVars, parseVars, classVars, routeVars, helpVars, treeVars>>

\* no operation is in progress or waiting to be looked at
Idle == op = Nothing /\ help_call = Nothing

NextCommand ==
    \/ Idle /\ \E args \in AddArgumentArgs, kwargs \in AddArgumentKwargs :
                   AddArgument(args, kwargs)
    \/ Idle /\ \E n \in CommandNames, path \in Paths, options \in InstanceOptions :
                   GetCommand(n, path, options)
    \/ Idle /\ \E cmd \in DOMAIN instances, path \in Paths : GetSubcommand(cmd, path)
    \/ Idle /\ \E stream \in ProcessStreams : RebindStdout(stream)
    \/ Idle /\ \E cmd \in DOMAIN instances, path \in Paths : PrintHelp(cmd, path)
    \/ \E outcome \in RenderOutcomes : RenderHelp(outcome)
    \/ OperationDone

SpecCommand == Init /\ [][NextCommand]_vars

LastOp == op[1]

\* C14: get_command(name) returns a newly constructed instance of the class
\* registered under name, built with the supplied stdout, stderr, no_color and
\* force_color; get_command(name, *path) addressing a command returns a bound
\* method of that new instance whose function is the one the class defines.
C14_GetCommandResult ==
    (op # Nothing /\ LastOp.name = "get_command" /\ LastOp.args[1] \in RegisteredCommands) =>
        LET name == LastOp.args[1]
            path == Tail(LastOp.args)
            new  == Len(instances)
        IN  /\ instances[new] = TyperCommandInstance(name, LastOp.kwargs)
            /\ path = <<>> => LastOp.result = Returned(new)
            /\ (path \in DOMAIN CommandStructure(name) /\ path # <<>>
                    /\ CommandStructure(name)[path]._callback # Nothing) =>
                   /\ LastOp.result.kind = "return"
                   /\ LastOp.result.value.__self__ = new
                   /\ LastOp.result.value.__func__ = Method(name, path[Len(path)])

\* C14 witness: a second instance was built for groups with a buffer as stdout
\* and the bound method of its nested command multiply was returned
C14_Witness ==
    /\ op # Nothing
    /\ LastOp.name = "get_command"
    /\ LastOp.args = <<"groups", "math", "multiply">>
    /\ Len(instances) = 2
    /\ instances[2].stdout = "buffer"
    /\ LastOp.result = Returned(MethodType(Method("groups", "multiply"), 2))

IsLookupError(exc) == exc \in {"LookupError", "KeyError", "IndexError"}

\* C15: every failed resolution by get_command (and print_help) is reported as a
\* LookupError: unregistered name, a path naming the callback, a path naming a
\* subcommand that does not exist.
C15_FailuresAreLookupErrors ==
    (op # Nothing /\ LastOp.name \in {"get_command", "print_help"}
        /\ LastOp.result.kind = "raise" /\ LastOp.result.exc # "Exception") =>
        IsLookupError(LastOp.result.exc)

\* the longest prefix of path that names a node of c's tree
RECURSIVE ResolvedPrefix(_, _, _)
ResolvedPrefix(c, path, k) ==
    IF k < Len(path) /\ SubSeq(path, 1, k + 1) \in DOMAIN CommandStructure(c)
    THEN ResolvedPrefix(c, path, k + 1)
    ELSE k

\* C16: get_subcommand descends child by child and returns the node reached; if
\* some segment is not a child of the node reached so far, it fails with a
\* 'No such command' error naming exactly that first unknown segment.
C16_FirstUnknownSegment ==
    (op # Nothing /\ LastOp.name = "get_subcommand") =>
        LET c    == LastOp.args[1]
            path == Tail(LastOp.args)
            k    == ResolvedPrefix(c, path, 0)
        IN  IF k = Len(path)
            THEN LastOp.result = Returned(CommandNode(c, path))
            ELSE /\ LastOp.result.kind = "raise"
                 /\ LastOp.result.msg = NoSuchCommand(path[k + 1])

\* C16 witness: the lookup failed at the second segment of a path whose first
\* segment is a child and whose third segment is unknown as well
C16_Witness ==
    /\ op # Nothing
    /\ LastOp.name = "get_subcommand"
    /\ LastOp.args = <<"groups", "math", "init", "multiply">>
    /\ LastOp.result = Raised("ValueError", NoSuchCommand("init"))

\* print_help got as far as rendering the node its path addresses
HelpRendered == op # Nothing /\ LastOp.name = "print_help" /\ "stdout_before" \in DOMAIN LastOp

C20_WitnessRaised ==
    /\ HelpRendered
    /\ LastOp.stdout_before = "capture"
    /\ LastOp.result.kind = "raise"
    /\ sys_stdout = "capture"

(***************************************************************************)
(* Help specification: the help text the metaclass gives to the            *)
(* application object of each class of an inheritance chain                *)
(***************************************************************************)
MaxChain == 3    \* the longest chain of command classes, each derived from the one before

\* typer.models.Default(None): no help text was given
DefaultNone == <<"Default(None)", 0>>

\* the sources of help text a class statement can carry: the help= keyword
\* of the class statement, the help attribute and the docstring of its body
HelpSources == {"param", "help", "__doc__"}

\* the text the class at position i of the chain gives through source s
HelpText(i, s) == <<s, i>>

\* the class statements: which sources the class supplies
ClassStatements == SUBSET HelpSources

\* the help keyword argument __new__ receives for the class at position i
help_keyword(i, given) == IF "param" \in given THEN HelpText(i, "param") ELSE DefaultNone

\* the attrs dictionary (the class body) __new__ receives
help_attrs(i, given) == [s \in given \ {"param"} |-> HelpText(i, s)]

\* attrs.get(key, default)
attrs_get(attrs, key, default) == IF key \in DOMAIN attrs THEN attrs[key] ELSE default

\* Typer(help=help or attrs.get("help", Default(None))): Default(None) is
\* falsy, so the keyword is used when given and else the class body's own
\* help attribute; neither the docstring nor a base class is consulted
typer_app_help(help, attrs) ==
    IF help # DefaultNone THEN help ELSE attrs_get(attrs, "help", DefaultNone)

\* the class created at position i of the chain
HelpClass(i, given) ==
    [given |-> given,
     help  |-> typer_app_help(help_keyword(i, given), help_attrs(i, given))]

\* a class statement deriving from the last class of the chain (the first
\* derives from TyperCommand) is executed
DefineHelpClass(given) ==
    /\ Len(help_chain) < MaxChain
    /\ help_chain' = Append(help_chain, HelpClass(Len(help_chain) + 1, given))
    /\ UNCHANGED <<adapterVars, dispatchVars, parseVars, classVars, routeVars, commandVars, treeVars>>

NextHelp == \E given \in ClassStatements : DefineHelpClass(given)

SpecHelp == Init /\ [][NextHelp]_vars

\* the classes of the chain up to position i that supply source s, nearest last
Suppliers(i, s) == {j \in 1..i : s \in help_chain[j].given}

Nearest(S) == CHOOSE j \in S : \A k \in S : k <= j

\* the help text the stated precedence selects for the class at position i:
\* a help= keyword anywhere on the chain before any class-level help
\* attribute, that before any docstring, the class's own before a base's
PrecedenceHelp(i) ==
    IF Suppliers(i, "param") # {} THEN HelpText(Nearest(Suppliers(i, "param")), "param")
    ELSE IF Suppliers(i, "help") # {} THEN HelpText(Nearest(Suppliers(i, "help")), "help")
    ELSE IF Suppliers(i, "__doc__") # {} THEN HelpText(Nearest(Suppliers(i, "__doc__")), "__doc__")
    ELSE DefaultNone

\* C21: the help text of every class's application object is the one the
\* precedence help= keyword, class-level help, inherited help selects among
\* the sources present on the class and its bases; a source on a base class
\* of higher precedence wins over a lower one given locally.
C21_HelpPrecedence ==
    \A i \in 1..Len(help_chain) : help_chain[i].help = PrecedenceHelp(i)

(***************************************************************************)
(* The command tree of an instance: TyperCommand.__init__,                 *)
(* _filter_commands and _build_cmd_tree over objects with identity         *)
(***************************************************************************)
MaxChildren == 2     \* the most commands registered on one group
MaxTrees == 2        \* the most instances constructed
MaxTreePath == 2     \* the longest command path looked up or given as arguments

\* the names commands and groups are registered under
LeafNames == {"add", "adds", "div"}
GroupName == "math"
TreeNames == LeafNames \cup {GroupName}

\* the code points of a name's characters
CodePoints(name) ==
    CASE name = "add"  -> <<97, 100, 100>>
      [] name = "adds" -> <<97, 100, 100, 115>>
      [] name = "div"  -> <<100, 105, 118>>
      [] name = "math" -> <<109, 97, 116, 104>>
      [] OTHER         -> <<>>

\* Python's s < t for sequences: the first difference decides, a proper prefix
\* is smaller
RECURSIVE SeqLess(_, _)
SeqLess(s, u) ==
    IF u = <<>> THEN FALSE
    ELSE IF s = <<>> THEN TRUE
    ELSE IF Head(s) # Head(u) THEN Head(s) < Head(u)
    ELSE SeqLess(Tail(s), Tail(u))

\* Python's a < b for str
StrLess(a, b) == SeqLess(CodePoints(a), CodePoints(b))

\* sorted(items, key=lambda item: item.name): a stable sort, each item placed
\* after the items that are not greater
RECURSIVE InsertByName(_, _)
InsertByName(items, item) ==
    IF items = <<>> THEN <<item>>
    ELSE IF StrLess(item.name, Head(items).name) THEN <<item>> \o items
    ELSE <<Head(items)>> \o InsertByName(Tail(items), item)

RECURSIVE sorted_by_name(_)
sorted_by_name(items) ==
    IF items = <<>> THEN <<>>
    ELSE InsertByName(sorted_by_name(SubSeq(items, 1, Len(items) - 1)), items[Len(items)])

\* click commands: a command has no subcommands, a group holds its commands
\* dictionary in the order they were registered
TreeCommand(name) == [name |-> name, commands |-> <<>>]

TreeGroup(name, commands) == [name |-> name, commands |-> commands]

DistinctNames(commands) ==
    \A i, j \in DOMAIN commands : i # j => commands[i].name # commands[j].name

Leaves == {TreeCommand(n) : n \in LeafNames}

\* the group math holds add and div, registered in either order
SubGroups ==
    {TreeGroup(GroupName, s) :
        s \in DistinctSeqs({TreeCommand("add"), TreeCommand("div")}, MaxChildren)}

\* get_typer_command(typer_app) of the command classes considered: a single
\* command, or a group of commands and subgroups in any registration order
TreeApps ==
    {TreeCommand("basic")} \cup
    {TreeGroup("groups", s) : s \in {q \in SeqsUpTo(Leaves \cup SubGroups, MaxChildren) :
                                         DistinctNames(q)}}

\* the commands in the order they were registered
commands_as_registered(command) == command.commands

\* _filter_commands(ctx) without a filter: the values of ctx.command.commands,
\* no commands for a plain command, sorted by name
sorted_commands(command) == sorted_by_name(command.commands)

\* the instances, named in the order they are constructed
InstanceName(i) ==
    CASE i = 1 -> "command_1" [] i = 2 -> "command_2" [] i = 3 -> "command_3"
      [] OTHER -> "command_4"

\* no object: the parent of a root context
NoObject == 0

\* Context(cmd, info_name=info_name, parent=parent, django_command=self) as an
\* object of the heap h; parent is the identity of the parent context
ContextObject(h, cmd, info_name, parent, django_command) ==
    LET c == Context(cmd, IF parent = NoObject THEN Nothing ELSE Some(h[parent]),
                     django_command, EmptyMap)
    IN  [kind           |-> "Context",
         command        |-> c.command,
         django_command |-> c.django_command,
         params         |-> c.params,
         children       |-> c.children,
         parent         |-> parent,
         info_name      |-> info_name]

\* the heap after Context.__init__: the new object, appended to the children
\* of its parent
NewContextUnrecorded(h, cmd, info_name, parent, django_command) ==
    Append(h, ContextObject(h, cmd, info_name, parent, django_command))

NewContext(h, cmd, info_name, parent, django_command) ==
    LET id == Len(h) + 1
        h1 == Append(h, ContextObject(h, cmd, info_name, parent, django_command))
    IN  IF parent = NoObject THEN h1
        ELSE [h1 EXCEPT ![parent].children = Append(@, id)]

\* CommandNode(name, command, context)
CommandNodeObject(name, command, context) ==
    [kind     |-> "CommandNode",
     name     |-> name,
     command  |-> command,
     context  |-> context,
     children |-> <<>>]

\* d[key] = value for a dictionary kept as its items in insertion order
DictSet(d, key, value) ==
    IF \E i \in DOMAIN d : d[i].key = key
    THEN [i \in DOMAIN d |-> IF d[i].key = key THEN [key |-> key, value |-> value] ELSE d[i]]
    ELSE Append(d, [key |-> key, value |-> value])

\* _build_cmd_tree(cmd, parent, info_name, node) on heap h: the heap afterwards
\* and the identity of the node created
RECURSIVE _build_cmd_tree(_, _, _, _, _, _)
RECURSIVE BuildChildren(_, _, _, _, _)
_build_cmd_tree(h, self, cmd, parent, info_name, node) ==
    LET ctx     == Len(h) + 1
        h1      == NewContext(h, cmd, info_name, parent, self)
        current == Len(h1) + 1
        h2      == Append(h1, CommandNodeObject(cmd.name, cmd, ctx))
        h3      == IF node # NoObject
                   THEN [h2 EXCEPT ![node].children = DictSet(@, cmd.name, current)]
                   ELSE h2
    IN  [heap    |-> BuildChildren(h3, self, sorted_commands(h3[ctx].command), ctx, current),
         current |-> current]

\* for cmd in self._filter_commands(ctx): self._build_cmd_tree(cmd, ctx, cmd.name, current)
BuildChildren(h, self, cmds, ctx, current) ==
    IF cmds = <<>> THEN h
    ELSE BuildChildren(_build_cmd_tree(h, self, Head(cmds), ctx, Head(cmds).name, current).heap,
                       self, Tail(cmds), ctx, current)

\* TyperCommand.__init__ on heap h for the instance named self of a class whose
\* application gives the click command app; built is the instances so far
CommandInitSharingTree(h, built, self, app) ==
    IF built = <<>>
    THEN _build_cmd_tree(h, self, app, NoObject, None, NoObject)
    ELSE [heap |-> h, current |-> built[1].command_tree]

TyperCommand__init__(h, built, self, app) ==
    _build_cmd_tree(h, self, app, NoObject, None, NoObject)

\* the command registered under name in a group's commands
HasCommand(cmd, name) == \E k \in DOMAIN cmd.commands : cmd.commands[k].name = name

CommandNamed(cmd, name) ==
    cmd.commands[CHOOSE k \in DOMAIN cmd.commands : cmd.commands[k].name = name]

\* the values parsing leaves in a context's params
ParsedParams(cmd) == [k \in {"verbosity"} |-> "1"]

\* the contexts click makes below the context parent for the subcommands the
\* arguments name, each with the context above it as parent
RECURSIVE sub_contexts(_, _, _, _)
sub_contexts(h, cmd, parent, args) ==
    IF args = <<>> \/ ~HasCommand(cmd, Head(args)) THEN h
    ELSE LET sub == CommandNamed(cmd, Head(args))
             id  == Len(h) + 1
             h1  == NewContext(h, sub, Head(args), parent, None)
         IN  sub_contexts([h1 EXCEPT ![id].params = ParsedParams(sub)], sub, id, Tail(args))

\* the root context of self's command tree
TreeRootContext(h, self) ==
    h[trees[CHOOSE i \in DOMAIN trees : trees[i].self = self].command_tree].context

\* parsing that fills the contexts of the instance's command tree
make_context_in_tree(h, self, cmd, info_name, args) ==
    [h EXCEPT ![TreeRootContext(h, self)].params = ParsedParams(cmd)]

\* cmd.make_context(info_name=..., django_command=self, args=args): a new root
\* context without parent, filled by parsing, and the contexts below it
make_context(h, self, cmd, info_name, args) ==
    LET root == Len(h) + 1
        h1   == NewContext(h, cmd, info_name, NoObject, self)
    IN  sub_contexts([h1 EXCEPT ![root].params = ParsedParams(cmd)], cmd, root, args)

\* how the library's parsing may end
TreeParseOutcomes == {"ok", "Exit", "UsageError"}

\* TyperParser(self, prog_name, subcommand).parse_args(args) on heap h: the
\* heap when the call has ended, its contexts released, and the result
TyperParser_parse_args(h, self, cmd, args, outcome) ==
    LET made == make_context(h, self, cmd, "manage.py command", args)
    IN  [heap   |-> SubSeq(made, 1, Len(h)),
         result |-> CASE outcome = "ok"   -> Returned("_ParsedArgs")
                      [] outcome = "Exit" -> Raised("SystemExit", None)
                      [] OTHER            -> Raised("UsageError", None)]

\* the node stored under key in a children dictionary
DictHas(d, key) == \E k \in DOMAIN d : d[k].key = key

DictGet(d, key) == d[CHOOSE k \in DOMAIN d : d[k].key = key].value

\* CommandNode.get_command(*command_path) of the node with identity node
RECURSIVE node_get_command(_, _, _)
node_get_command(h, node, command_path) ==
    IF command_path = <<>> THEN Returned(node)
    ELSE IF DictHas(h[node].children, Head(command_path))
         THEN node_get_command(h, DictGet(h[node].children, Head(command_path)),
                               Tail(command_path))
         ELSE Raised("ValueError", NoSuchCommand(Head(command_path)))

TreePaths == SeqsUpTo(TreeNames, MaxTreePath)

\* the class whose instances are constructed is defined
DefineTreeApp(app) ==
    /\ tree_app = Nothing
    /\ tree_app' = Some(app)
    /\ UNCHANGED <<heap, trees, tree_op>>
    /\ UNCHANGED <<adapterVars, dispatchVars, parseVars, classVars, routeVars, commandVars, helpVars>>

\* Command(): an instance is constructed and builds its command tree
NewTreeInstance ==
    /\ tree_app # Nothing
    /\ tree_op = Nothing
    /\ Len(trees) < MaxTrees
    /\ LET self  == InstanceName(Len(trees) + 1)
           built == TyperCommand__init__(heap, trees, self, tree_app[1])
       IN  /\ heap' = built.heap
           /\ trees' = Append(trees, [self |-> self, command_tree |-> built.current])
    /\ UNCHANGED <<tree_app, tree_op>>
    /\ UNCHANGED <<adapterVars, dispatchVars, parseVars, classVars, routeVars, commandVars, helpVars>>

\* instance i's parser parses the arguments args
TreeParseArgs(i, args, outcome) ==
    /\ tree_op = Nothing
    /\ i \in DOMAIN trees
    /\ LET r == TyperParser_parse_args(heap, trees[i].self, tree_app[1], args, outcome)
       IN  /\ heap' = r.heap
           /\ tree_op' = Some([op |-> "parse_args", instance |-> i, path |-> args,
                               result |-> r.result])
    /\ UNCHANGED <<tree_app, trees>>
    /\ UNCHANGED <<adapterVars, dispatchVars, parseVars, classVars, routeVars, commandVars, helpVars>>

\* instance i's get_subcommand(*command_path)
TreeGetSubcommand(i, command_path) ==
    /\ tree_op = Nothing
    /\ i \in DOMAIN trees
    /\ tree_op' = Some([op |-> "get_subcommand", instance |-> i, path |-> command_path,
                        result |-> node_get_command(heap, trees[i].command_tree, command_path)])
    /\ UNCHANGED <<tree_app, heap, trees>>
    /\ UNCHANGED <<adapterVars, dispatchVars, parseVars, classVars, routeVars, commandVars, helpVars>>

\* the caller has looked at the result
TreeOpDone ==
    /\ tree_op # Nothing
    /\ tree_op' = Nothing
    /\ UNCHANGED <<tree_app, heap, trees>>
    /\ UNCHANGED <<adapterVars, dispatchVars, parseVars, classVars, routeVars, commandVars, helpVars>>

TreeIdle == tree_op = Nothing /\ trees # <<>>

NextTree ==
    \/ \E app \in TreeApps : DefineTreeApp(app)
    \/ NewTreeInstance
    \/ TreeIdle /\ \E i \in DOMAIN trees, args \in TreePaths, outcome \in TreeParseOutcomes :
           TreeParseArgs(i, args, outcome)
    \/ TreeIdle /\ \E i \in DOMAIN trees, command_path \in TreePaths :
           TreeGetSubcommand(i, command_path)
    \/ TreeOpDone

SpecTree == Init /\ [][NextTree]_vars

\* the identities of the nodes stored in node n's children, in stored order
ChildNodes(n) == [k \in DOMAIN heap[n].children |-> heap[n].children[k].value]

\* the nodes reachable from the nodes in frontier through children
RECURSIVE ReachableNodes(_, _)
ReachableNodes(frontier, seen) ==
    IF frontier \subseteq seen THEN seen
    ELSE ReachableNodes(UNION {Range(ChildNodes(n)) : n \in frontier}, seen \cup frontier)

\* the nodes of instance i's command tree, and their contexts
TreeNodes(i) == ReachableNodes({trees[i].command_tree}, {})

TreeContexts(i) == {heap[n].context : n \in TreeNodes(i)}

TreeObjects(i) == TreeNodes(i) \cup TreeContexts(i)

\* C24: no node or context belongs to the command trees of two instances, and
\* the context of every node of an instance's tree has that instance as its
\* django_command.
C24_TreePerInstance ==
    /\ \A i, j \in DOMAIN trees : i # j => TreeObjects(i) \cap TreeObjects(j) = {}
    /\ \A i \in DOMAIN trees : \A n \in TreeNodes(i) :
           heap[heap[n].context].django_command = trees[i].self

\* C24 witness: two instances of a class with a group inside its group, each
\* with a tree of four nodes
C24_Witness ==
    /\ Len(trees) = 2
    /\ Cardinality(TreeNodes(1)) = 4
    /\ Cardinality(TreeNodes(2)) = 4
    /\ \E n \in TreeNodes(2) : heap[n].name = "div" /\ heap[heap[n].context].parent # NoObject

\* the paths of names from command cmd to the commands below it, itself included
RECURSIVE CommandPaths(_)
CommandPaths(cmd) ==
    {<<>>} \cup UNION {{<<cmd.commands[k].name>> \o p : p \in CommandPaths(cmd.commands[k])}
                       : k \in DOMAIN cmd.commands}

\* the command a path leads to
RECURSIVE CommandAt(_, _)
CommandAt(cmd, path) ==
    IF path = <<>> THEN cmd ELSE CommandAt(CommandNamed(cmd, Head(path)), Tail(path))

\* the path of keys from the root of the tree to node n
RECURSIVE NodePath(_, _)
NodePath(root, n) ==
    IF n = root THEN <<>>
    ELSE LET parent == CHOOSE m \in DOMAIN heap :
                           heap[m].kind = "CommandNode" /\ n \in Range(ChildNodes(m))
             key    == heap[parent].children[
                           CHOOSE k \in DOMAIN heap[parent].children :
                               heap[parent].children[k].value = n].key
         IN  Append(NodePath(root, parent), key)

\* the nodes that hold n among their children, and the contexts that record
\* context c among theirs, counted with repetition
NodeParents(i, n) == {m \in TreeNodes(i) : n \in Range(ChildNodes(m))}

ContextRecordings(i, c) ==
    {<<p, k>> \in TreeContexts(i) \X (1..Len(heap)) :
        k \in DOMAIN heap[p].children /\ heap[p].children[k] = c}

\* C25: the command tree of an instance is a rooted tree that mirrors the
\* nesting of the application's commands: one node per command or group, the
\* root the top-level command, every other node the child of exactly one node
\* and its context recorded once as a child of its parent node's context, the
\* root context of none, and no node its own ancestor.
C25_RootedTree ==
    \A i \in DOMAIN trees :
        LET root == trees[i].command_tree
        IN  /\ heap[root].command = tree_app[1]
            /\ heap[heap[root].context].parent = NoObject
            /\ NodeParents(i, root) = {}
            /\ ContextRecordings(i, heap[root].context) = {}
            /\ Cardinality(TreeNodes(i)) = Cardinality(CommandPaths(tree_app[1]))
            /\ \A n \in TreeNodes(i) :
                   /\ n \notin ReachableNodes(Range(ChildNodes(n)), {})
                   /\ n # root =>
                          /\ Cardinality(NodeParents(i, n)) = 1
                          /\ Cardinality(ContextRecordings(i, heap[n].context)) = 1
                          /\ \A m \in NodeParents(i, n) :
                                 /\ heap[heap[n].context].parent = heap[m].context
                                 /\ ContextRecordings(i, heap[n].context) \subseteq
                                        {heap[m].context} \X (1..Len(heap))
                   /\ NodePath(root, n) \in CommandPaths(tree_app[1])
                   /\ heap[n].command = CommandAt(tree_app[1], NodePath(root, n))
                   /\ heap[heap[n].context].command = heap[n].command

\* C25 witness: a tree with a group below the root group and a command in it
C25_Witness ==
    /\ Len(trees) >= 1
    /\ Cardinality(TreeNodes(1)) = 5
    /\ \E n \in TreeNodes(1) : NodePath(trees[1].command_tree, n) = <<"math", "add">>

\* C26: the children of every node are stored, and were created, in ascending
\* order of command name, one for each command of the node's command, whatever
\* the order of registration.
C26_ChildrenSortedByName ==
    \A i \in DOMAIN trees : \A n \in TreeNodes(i) :
        LET children == heap[n].children
        IN  /\ {children[k].key : k \in DOMAIN children} =
                   {heap[n].command.commands[k].name : k \in DOMAIN heap[n].command.commands}
            /\ Len(children) = Len(heap[n].command.commands)
            /\ \A a, b \in DOMAIN children :
                   a < b => /\ StrLess(children[a].key, children[b].key)
                            /\ children[a].value < children[b].value
            /\ \A k \in DOMAIN children : heap[children[k].value].name = children[k].key

\* C26 witness: commands registered in descending order of name, at the top
\* and inside the group
C26_Witness ==
    /\ Len(trees) >= 1
    /\ tree_app[1] = TreeGroup("groups", <<TreeGroup("math", <<TreeCommand("div"), TreeCommand("add")>>),
                                           TreeCommand("adds")>>)
    /\ heap[trees[1].command_tree].children[1].key = "adds"

\* the objects of instance i's command tree as they are
TreeState(i) == [id \in TreeObjects(i) |-> heap[id]]

\* C30: parse_args and get_subcommand, however they end, leave the nodes of
\* every instance's command tree, their children and their contexts as they
\* were, and the params of every context of the tree empty.
C30_TreeUnchangedByParsing ==
    [][(tree_op = Nothing /\ tree_op' # Nothing) =>
           /\ trees' = trees
           /\ \A i \in DOMAIN trees :
                  /\ TreeState(i)' = TreeState(i)
                  /\ \A c \in TreeContexts(i) : heap'[c].params = EmptyMap]_vars

\* C30 witness: parse_args for a subcommand path of a tree with a subgroup
\* ended with an exception
C30_Witness ==
    /\ tree_op # Nothing
    /\ tree_op[1].op = "parse_args"
    /\ tree_op[1].path = <<"math", "add">>
    /\ tree_op[1].result.kind = "raise"
    /\ Cardinality(TreeNodes(tree_op[1].instance)) = 4

====
